---- MODULE Spec2Model ----
(***************************************************************************)
(* The Eventer payment server (src/server.js): five POST handlers that     *)
(* proxy to the payment processor.  A handler runs synchronously up to its *)
(* next `await`; every awaited processor call is one step, served          *)
(* atomically by the processor, and requests interleave at those steps.    *)
(***************************************************************************)
EXTENDS Integers, Sequences, FiniteSets, TLC

\* ---------------------------------------------------------------- bounds
\* Number of HTTP requests a behaviour receives.
MaxReqs == 2
\* Number of subscriptions the processor holds before the server starts.
MaxSubs == 3

\* ------------------------------------------------------- program constants
\* stripe.subscriptions.list({ ..., limit: 10 })
SubscriptionsLimit == 10
\* stripe.customers.list / promotionCodes.list ({ ..., limit: 1 })
LookupLimit == 1

Reqs == 1..MaxReqs

VARIABLES
  req,        \* req[r]: one HTTP request: its body, position, locals, output
  customers,  \* processor: customers, oldest first; the id is the index
  subs,       \* processor: subscriptions; the id is the index
  intents     \* processor: payment intents made by paymentIntents.create

vars == <<req, customers, subs, intents>>

\* ------------------------------------------------------------ JS values
\* A body field that is absent (undefined); strings, ids and codes each
\* have their own falsy value so that a field keeps one type.
Undefined == "undefined"
\* An absent or zero id: `!customerId` holds.
NoId == 0
\* A promoCode the body does not carry; <<>> is the empty string.
NoCode == <<"undefined">>
Null == <<>>

\* `promoCode === undefined`: the empty string passes.
FalsyCodeUndefinedOnly(code) == code = NoCode

\* `!promoCode`
FalsyCode(code) == code = NoCode \/ code = <<>>

UpperChar(c) ==
  CASE c = "s" -> "S"
    [] c = "f" -> "F"
    [] c = "x" -> "X"
    [] c = "q" -> "Q"
    [] OTHER -> c

\* String.prototype.toUpperCase
ToUpperCase(s) == [i \in 1..Len(s) |-> UpperChar(s[i])]

\* The first n elements of s (a list call's `limit`).
Take(s, n) == IF Len(s) <= n THEN s ELSE SubSeq(s, 1, n)

RECURSIVE Reverse(_)
Reverse(s) == IF s = <<>> THEN <<>> ELSE Append(Reverse(Tail(s)), Head(s))

\* The indices of s, ascending.
Indices(s) == [i \in 1..Len(s) |-> i]

Range(s) == {s[i] : i \in 1..Len(s)}

\* ------------------------------------------------- processor objects
Emails == {"a@x", "b@x"}

\* A customer: its email, and metadata.eventer_user_id (NoId when absent).
Customer(email, user) == [email |-> email, eventer_user_id |-> user]

\* A subscription; payment_intent tells whether latest_invoice.payment_intent
\* is an object (TRUE) or null.
Subscription(customer, status, payment_intent, promotion_code) ==
  [customer |-> customer, status |-> status,
   payment_intent |-> payment_intent, promotion_code |-> promotion_code]

\* ------------------------------------------------------------- requests
Idle ==
  [route |-> "none", body |-> [none |-> TRUE], pc |-> "idle",
   customers |-> <<>>,       \* const customers = ...list(...).data
   customer |-> NoId,        \* let customer (its id)
   seen |-> 0,               \* customers the processor held at the lookup
   ephemeralKey |-> Null,
   promotion_code |-> NoId,  \* subscriptionOptions.promotion_code
   subscriptions |-> <<>>,   \* subscriptions.data
   canceledSubscriptions |-> <<>>,
   calls |-> <<>>,           \* processor calls made, in order
   out |-> <<>>,             \* console lines and responses, in order
   res |-> <<>>]             \* responses sent

\* A processor call as the request's log keeps it.
Call(op, arg, ok, ret) == [op |-> op, arg |-> arg, ok |-> ok, ret |-> ret]

\* res.status(status).json(body) / .send(body): the response goes on the wire.
Send(q, status, body) ==
  [q EXCEPT !.res = Append(@, [status |-> status, body |-> body]),
            !.out = Append(@, [kind |-> "response", status |-> status]),
            !.pc = "done"]

ConsoleLog(q, line) ==
  [q EXCEPT !.out = Append(@, [kind |-> "log", line |-> line])]

\* catch (error) { console.error(...); res.status(500).json({ error: error.message }) }
Catch(q, message) ==
  Send(ConsoleLog(q, "error"), 500, [error |-> message])

\* The handler's synchronous prefix sits at the first await.
Arrive(r, route, body, pc) ==
  [Idle EXCEPT !.route = route, !.body = body, !.pc = pc]

\* Requests are taken in order of arrival.
CanArrive(r) ==
  /\ req[r].pc = "idle"
  /\ \A p \in Reqs : p < r => req[p].pc # "idle"

\* ------------------------------------------------------------- /webhook
EndpointSecret == "whsec"

EventTypes ==
  {"payment_intent.succeeded", "customer.subscription.created",
   "customer.subscription.updated", "customer.subscription.deleted",
   "charge.refunded"}

\* A delivery: the raw body (an event of some type), and the signature
\* header: the key it was signed with, whether it was computed over these
\* exact bytes, and whether its timestamp is within tolerance.
Deliveries ==
  [type : EventTypes, key : {EndpointSecret, "other"},
   tampered : BOOLEAN, stale : BOOLEAN]

\* stripe.webhooks.constructEvent(req.body, sig, endpointSecret): the event,
\* or the message of the error it throws.
SignatureError(d, secret) ==
  IF d.key # secret \/ d.tampered
  THEN "No signatures found matching the expected signature for payload"
  ELSE IF d.stale THEN "Timestamp outside the tolerance zone"
  ELSE "none"

\* switch (event.type) { ... }: the line each branch logs.
Dispatch(type) ==
  CASE type = "payment_intent.succeeded" -> "Payment succeeded"
    [] type \in {"customer.subscription.created",
                 "customer.subscription.updated"} -> "Subscription updated"
    [] type = "customer.subscription.deleted" -> "Subscription canceled"
    [] OTHER -> "Unhandled event type"

\* A handler that acknowledges whatever the verification said.
WebhookHandlerAcksUnverified(q) ==
  LET err == SignatureError(q.body, EndpointSecret) IN
  IF err # "none"
  THEN Send(ConsoleLog(q, "Webhook signature verification failed"),
            200, [received |-> TRUE])
  ELSE Send(ConsoleLog(q, Dispatch(q.body.type)), 200, [received |-> TRUE])

\* A handler whose catch lacks the `return`: it answers 400 and goes on.
WebhookHandlerFallsThrough(q) ==
  LET err == SignatureError(q.body, EndpointSecret)
      failed == Send(ConsoleLog(q, "Webhook signature verification failed"),
                     400, [webhookError |-> err]) IN
  Send(ConsoleLog(IF err # "none" THEN failed ELSE q, Dispatch(q.body.type)),
       200, [received |-> TRUE])

\* The handler has no await: it runs to its response in one step.
WebhookHandler(q) ==
  LET err == SignatureError(q.body, EndpointSecret) IN
  IF err # "none"
  THEN Send(ConsoleLog(q, "Webhook signature verification failed"),
            400, [webhookError |-> err])
  ELSE Send(ConsoleLog(q, Dispatch(q.body.type)), 200, [received |-> TRUE])

Webhook(r) ==
  /\ CanArrive(r)
  /\ \E d \in Deliveries :
       req' = [req EXCEPT ![r] = WebhookHandler(Arrive(r, "webhook", d, "verify"))]
  /\ UNCHANGED <<customers, subs, intents>>

\* ------------------------------------------------------- /validate-promo
\* The processor's promotion codes, newest first.  percent_off 100 makes a
\* subscription's first invoice free.  amount_off and duration_in_months are
\* null (0) on these coupons.
PromotionCodes ==
  << [id |-> 4, code |-> <<"S">>, active |-> FALSE,
      coupon |-> [percent_off |-> 50, amount_off |-> 0,
                  duration |-> "once", duration_in_months |-> 0]],
     [id |-> 3, code |-> <<"X">>, active |-> FALSE,
      coupon |-> [percent_off |-> 20, amount_off |-> 0,
                  duration |-> "once", duration_in_months |-> 0]],
     [id |-> 2, code |-> <<"F">>, active |-> TRUE,
      coupon |-> [percent_off |-> 100, amount_off |-> 0,
                  duration |-> "forever", duration_in_months |-> 0]],
     [id |-> 1, code |-> <<"S">>, active |-> TRUE,
      coupon |-> [percent_off |-> 10, amount_off |-> 0,
                  duration |-> "once", duration_in_months |-> 0]] >>

PromoInputs ==
  {NoCode, <<>>, <<"s">>, <<"S">>, <<"f">>, <<"x">>, <<"q">>}

\* A lookup without `active: true`.
PromoMatchesInactive(code, p) == p.code = code

PromoMatches(code, p) == p.code = code /\ p.active

\* stripe.promotionCodes.list({ code, active: true, limit: 1 }).data
PromotionCodesList(code) ==
  Take(SelectSeq(PromotionCodes, LAMBDA p : PromoMatches(code, p)), LookupLimit)

ValidatePromoArrive(q) ==
  IF FalsyCode(q.body.promoCode)
  THEN Send(q, 400, [valid |-> FALSE, error |-> "Promo code is required"])
  ELSE q

ValidatePromo(r) ==
  /\ CanArrive(r)
  /\ \E code \in PromoInputs :
       req' = [req EXCEPT ![r] = ValidatePromoArrive(
                 Arrive(r, "validate-promo", [promoCode |-> code],
                        "promotionCodes.list"))]
  /\ UNCHANGED <<customers, subs, intents>>

\* catch (error) { ...; res.status(500).json({ valid: false, error: error.message }) }
ValidatePromoCatch(q, message) ==
  Send(ConsoleLog(q, "error"), 500, [valid |-> FALSE, error |-> message])

\* The response to a served lookup.
ValidatePromoAnswer(q, data) ==
  IF Len(data) = 0
  THEN Send(q, 200, [valid |-> FALSE])
  ELSE LET promoCodeObj == data[1]
           coupon == promoCodeObj.coupon IN
       Send(q, 200, [valid |-> TRUE,
                     promoCodeId |-> promoCodeObj.id,
                     percentOff |-> coupon.percent_off,
                     amountOff |-> coupon.amount_off,
                     duration |-> coupon.duration,
                     durationInMonths |-> coupon.duration_in_months])

ValidatePromoList(r) ==
  /\ req[r].route = "validate-promo"
  /\ req[r].pc = "promotionCodes.list"
  /\ LET q == req[r]
         code == ToUpperCase(q.body.promoCode)
         data == PromotionCodesList(code) IN
     \/ req' = [req EXCEPT ![r] = ValidatePromoAnswer(
                  [q EXCEPT !.calls = Append(@, Call("promotionCodes.list", code,
                                                     TRUE, [i \in 1..Len(data) |-> data[i].id]))],
                  data)]
     \/ req' = [req EXCEPT ![r] = ValidatePromoCatch(
                  [q EXCEPT !.calls = Append(@, Call("promotionCodes.list", code,
                                                     FALSE, <<>>))],
                  "processor error")]
  /\ UNCHANGED <<customers, subs, intents>>

\* --------------------------------------------------- /cancel-subscription
\* A list call without `status: 'active'`.
SubMatchesAnyStatus(customerId, i) == subs[i].customer = customerId

SubMatches(customerId, i) ==
  subs[i].customer = customerId /\ subs[i].status = "active"

\* stripe.subscriptions.list({ customer, status: 'active', limit: 10 }).data:
\* the ids, newest first.
SubscriptionsList(customerId) ==
  Take(SelectSeq(Reverse(Indices(subs)), LAMBDA i : SubMatches(customerId, i)),
       SubscriptionsLimit)

CancelSubscriptionArrive(q) ==
  IF q.body.customerId = NoId
  THEN Send(q, 400, [error |-> "Customer ID is required"])
  ELSE q

CancelSubscription(r) ==
  /\ CanArrive(r)
  /\ \E customerId \in {NoId} \cup (1..Len(customers)) :
       req' = [req EXCEPT ![r] = CancelSubscriptionArrive(
                 Arrive(r, "cancel-subscription", [customerId |-> customerId],
                        "subscriptions.list"))]
  /\ UNCHANGED <<customers, subs, intents>>

\* The handler after the list call returned data.
CancelListAnswer(q, data) ==
  IF Len(data) = 0
  THEN Send(q, 404, [error |-> "No active subscription found"])
  ELSE [q EXCEPT !.subscriptions = data, !.canceledSubscriptions = <<>>,
                 !.pc = "subscriptions.cancel"]

CancelList(r) ==
  /\ req[r].route = "cancel-subscription"
  /\ req[r].pc = "subscriptions.list"
  /\ LET q == req[r]
         arg == <<q.body.customerId>>
         data == SubscriptionsList(q.body.customerId) IN
     \/ req' = [req EXCEPT ![r] = CancelListAnswer(
                  [q EXCEPT !.calls = Append(@, Call("subscriptions.list", arg, TRUE, data))],
                  data)]
     \/ req' = [req EXCEPT ![r] = Catch(
                  [q EXCEPT !.calls = Append(@, Call("subscriptions.list", arg, FALSE, <<>>))],
                  "processor error")]
  /\ UNCHANGED <<customers, subs, intents>>

\* One turn of `for (const subscription of subscriptions.data)` ended with
\* the id pushed: the next turn's call, or the response after the last.
CancelPushed(q, id) ==
  LET pushed == [q EXCEPT !.canceledSubscriptions = Append(@, id)] IN
  IF Len(pushed.canceledSubscriptions) = Len(q.subscriptions)
  THEN Send(pushed, 200, [success |-> TRUE,
                          canceledSubscriptions |-> pushed.canceledSubscriptions])
  ELSE pushed

\* A loop that catches the failure of one turn and goes on to the next.
CancelThrewGoesOn(q) ==
  CancelPushed(ConsoleLog(q, "error"),
               q.subscriptions[Len(q.canceledSubscriptions) + 1])

\* The turn's cancel call threw.
CancelThrew(q) == Catch(q, "processor error")

\* await stripe.subscriptions.cancel(subscription.id): the processor refuses
\* a subscription that is canceled already, and may fail otherwise.
CancelNext(r) ==
  /\ req[r].route = "cancel-subscription"
  /\ req[r].pc = "subscriptions.cancel"
  /\ LET q == req[r]
         id == q.subscriptions[Len(q.canceledSubscriptions) + 1] IN
     \/ /\ subs[id].status # "canceled"
        /\ subs' = [subs EXCEPT ![id].status = "canceled"]
        /\ req' = [req EXCEPT ![r] = CancelPushed(
                     [q EXCEPT !.calls = Append(@, Call("subscriptions.cancel", <<id>>,
                                                        TRUE, <<id>>))], id)]
     \/ /\ UNCHANGED subs
        /\ req' = [req EXCEPT ![r] = CancelThrew(
                     [q EXCEPT !.calls = Append(@, Call("subscriptions.cancel", <<id>>,
                                                        FALSE, <<>>))])]
  /\ UNCHANGED <<customers, intents>>

\* ------------------------------------------------- customer resolution
CustomerMatches(email, i) == customers[i].email = email

\* stripe.customers.list({ email, limit: 1 }).data: the ids, newest first.
CustomersList(email) ==
  Take(SelectSeq(Reverse(Indices(customers)), LAMBDA i : CustomerMatches(email, i)),
       LookupLimit)

\* A handler that creates a customer whatever the lookup returned.
LookupAnswerAlwaysCreates(q, data) ==
  [q EXCEPT !.customers = data, !.pc = "customers.create"]

\* The handler after the lookup returned data: reuse data[0], or create.
LookupAnswer(q, data) ==
  IF Len(data) > 0
  THEN [q EXCEPT !.customers = data, !.customer = data[1],
                 !.pc = "ephemeralKeys.create"]
  ELSE [q EXCEPT !.customers = data, !.pc = "customers.create"]

\* await stripe.customers.list(...) of request r, and the branch on its data.
LookupStep(r) ==
  /\ req[r].pc = "customers.list"
  /\ LET q == [req[r] EXCEPT !.seen = Len(customers)]
         arg == <<q.body.customerEmail>>
         data == CustomersList(q.body.customerEmail) IN
     \/ req' = [req EXCEPT ![r] = LookupAnswer(
                  [q EXCEPT !.calls = Append(@, Call("customers.list", arg, TRUE, data))],
                  data)]
     \/ req' = [req EXCEPT ![r] = Catch(
                  [q EXCEPT !.calls = Append(@, Call("customers.list", arg, FALSE, <<>>))],
                  "processor error")]
  /\ UNCHANGED <<customers, subs, intents>>

\* await stripe.customers.create({ email, metadata }) of request r.
CreateStep(r) ==
  /\ req[r].pc = "customers.create"
  /\ LET q == req[r]
         arg == <<q.body.customerEmail>>
         id == Len(customers) + 1 IN
     \/ /\ customers' = Append(customers,
                               Customer(q.body.customerEmail, q.body.customerId))
        /\ req' = [req EXCEPT ![r] =
                     [q EXCEPT !.calls = Append(@, Call("customers.create", arg, TRUE, <<id>>)),
                               !.customer = id,
                               !.pc = "ephemeralKeys.create"]]
     \/ /\ UNCHANGED customers
        /\ req' = [req EXCEPT ![r] = Catch(
                     [q EXCEPT !.calls = Append(@, Call("customers.create", arg, FALSE, <<>>))],
                     "processor error")]
  /\ UNCHANGED <<subs, intents>>

\* A handler that swallows the failure of this call and goes on.
EphemeralKeyStepGoesOn(r, next) ==
  /\ req[r].pc = "ephemeralKeys.create"
  /\ LET q == req[r]
         arg == <<q.customer>> IN
     \E ok \in BOOLEAN :
       req' = [req EXCEPT ![r] =
                 [q EXCEPT !.calls = Append(@, Call("ephemeralKeys.create", arg, ok,
                                                    IF ok THEN arg ELSE <<>>)),
                           !.ephemeralKey = IF ok THEN <<"ek_secret", q.customer>>
                                            ELSE Null,
                           !.pc = next]]
  /\ UNCHANGED <<customers, subs, intents>>

\* await stripe.ephemeralKeys.create({ customer: customer.id }, ...) of
\* request r; `next` is the handler's next await.
EphemeralKeyStep(r, next) ==
  /\ req[r].pc = "ephemeralKeys.create"
  /\ LET q == req[r]
         arg == <<q.customer>> IN
     \/ req' = [req EXCEPT ![r] =
                  [q EXCEPT !.calls = Append(@, Call("ephemeralKeys.create", arg, TRUE, arg)),
                            !.ephemeralKey = <<"ek_secret", q.customer>>,
                            !.pc = next]]
     \/ req' = [req EXCEPT ![r] = Catch(
                  [q EXCEPT !.calls = Append(@, Call("ephemeralKeys.create", arg, FALSE, <<>>))],
                  "processor error")]
  /\ UNCHANGED <<customers, subs, intents>>

\* ------------------------------------------------- /create-payment-intent
UserIds == {NoId, 7}

IntentBodies ==
  [priceId : {"price_1"}, amount : {500}, currency : {Undefined, "eur"},
   customerId : UserIds, customerEmail : Emails]

\* if (customerId) { look the customer up } else { create one }
IntentFirstAwait(body) ==
  IF body.customerId # NoId THEN "customers.list" ELSE "customers.create"

CreatePaymentIntent(r) ==
  /\ CanArrive(r)
  /\ \E body \in IntentBodies :
       req' = [req EXCEPT ![r] =
                 Arrive(r, "create-payment-intent", body, IntentFirstAwait(body))]
  /\ UNCHANGED <<customers, subs, intents>>

IntentCustomersList(r) ==
  req[r].route = "create-payment-intent" /\ LookupStep(r)

IntentCustomersCreate(r) ==
  req[r].route = "create-payment-intent" /\ CreateStep(r)

IntentEphemeralKey(r) ==
  req[r].route = "create-payment-intent"
    /\ EphemeralKeyStep(r, "paymentIntents.create")

\* currency || 'usd'
Currency(body) == IF body.currency = Undefined THEN "usd" ELSE body.currency

\* await stripe.paymentIntents.create(...) and the response.
IntentCreate(r) ==
  /\ req[r].route = "create-payment-intent"
  /\ req[r].pc = "paymentIntents.create"
  /\ LET q == req[r]
         arg == <<q.customer>>
         id == Len(intents) + 1 IN
     \/ /\ intents' = Append(intents, [customer |-> q.customer,
                                       amount |-> q.body.amount,
                                       currency |-> Currency(q.body)])
        /\ req' = [req EXCEPT ![r] = Send(
                     [q EXCEPT !.calls = Append(@, Call("paymentIntents.create", arg, TRUE, <<id>>))],
                     200, [paymentIntent |-> <<"pi_secret", id>>,
                           ephemeralKey |-> q.ephemeralKey,
                           customer |-> q.customer,
                           publishableKey |-> "pk"])]
     \/ /\ UNCHANGED intents
        /\ req' = [req EXCEPT ![r] = Catch(
                     [q EXCEPT !.calls = Append(@, Call("paymentIntents.create", arg, FALSE, <<>>))],
                     "processor error")]
  /\ UNCHANGED <<customers, subs>>

\* --------------------------------------------------- /create-subscription
SubscriptionPromoInputs == {NoCode, <<"f">>, <<"q">>}

SubscriptionBodies ==
  [priceId : {"price_1"}, customerEmail : Emails, customerId : {7},
   promoCode : SubscriptionPromoInputs]

CreateSubscription(r) ==
  /\ CanArrive(r)
  /\ \E body \in SubscriptionBodies :
       req' = [req EXCEPT ![r] =
                 Arrive(r, "create-subscription", body, "customers.list")]
  /\ UNCHANGED <<customers, subs, intents>>

SubCustomersList(r) ==
  req[r].route = "create-subscription" /\ LookupStep(r)

SubCustomersCreate(r) ==
  req[r].route = "create-subscription" /\ CreateStep(r)

\* if (promoCode) { look the promotion code up }
SubAwaitAfterKey(body) ==
  IF FalsyCode(body.promoCode) THEN "subscriptions.create"
  ELSE "promotionCodes.list"

SubEphemeralKey(r) ==
  req[r].route = "create-subscription"
    /\ EphemeralKeyStep(r, SubAwaitAfterKey(req[r].body))

\* if (promotionCodes.data.length > 0) subscriptionOptions.promotion_code = ...
SubPromoAnswer(q, data) ==
  [q EXCEPT !.promotion_code = IF Len(data) > 0 THEN data[1].id ELSE NoId,
            !.pc = "subscriptions.create"]

SubPromoList(r) ==
  /\ req[r].route = "create-subscription"
  /\ req[r].pc = "promotionCodes.list"
  /\ LET q == req[r]
         code == ToUpperCase(q.body.promoCode)
         data == PromotionCodesList(code) IN
     \/ req' = [req EXCEPT ![r] = SubPromoAnswer(
                  [q EXCEPT !.calls = Append(@, Call("promotionCodes.list", code,
                                                     TRUE, [i \in 1..Len(data) |-> data[i].id]))],
                  data)]
     \/ req' = [req EXCEPT ![r] = Catch(
                  [q EXCEPT !.calls = Append(@, Call("promotionCodes.list", code,
                                                     FALSE, <<>>))],
                  "processor error")]
  /\ UNCHANGED <<customers, subs, intents>>

\* The processor's subscription for these options: a promotion code that
\* takes 100% off leaves the first invoice without a payment intent, and
\* the subscription active at once; otherwise payment is awaited.
InvoiceIsFree(promotion_code) ==
  \E i \in 1..Len(PromotionCodes) :
    /\ PromotionCodes[i].id = promotion_code
    /\ PromotionCodes[i].coupon.percent_off = 100

NewSubscription(customer, promotion_code) ==
  IF InvoiceIsFree(promotion_code)
  THEN Subscription(customer, "active", FALSE, promotion_code)
  ELSE Subscription(customer, "incomplete", TRUE, promotion_code)

\* res.json({ ..., paymentIntent:
\*   subscription.latest_invoice.payment_intent.client_secret, ... }):
\* reading client_secret of a null payment_intent throws into the catch.
SubCreateAnswer(q, id, subscription) ==
  IF subscription.payment_intent
  THEN Send(q, 200, [subscriptionId |-> id,
                     paymentIntent |-> <<"pi_secret_of_sub", id>>,
                     ephemeralKey |-> q.ephemeralKey,
                     customer |-> q.customer])
  ELSE Catch(q, "Cannot read properties of null (reading 'client_secret')")

SubCreate(r) ==
  /\ req[r].route = "create-subscription"
  /\ req[r].pc = "subscriptions.create"
  /\ LET q == req[r]
         arg == <<q.customer>>
         id == Len(subs) + 1
         subscription == NewSubscription(q.customer, q.promotion_code) IN
     \/ /\ subs' = Append(subs, subscription)
        /\ req' = [req EXCEPT ![r] = SubCreateAnswer(
                     [q EXCEPT !.calls = Append(@, Call("subscriptions.create", arg, TRUE, <<id>>))],
                     id, subscription)]
     \/ /\ UNCHANGED subs
        /\ req' = [req EXCEPT ![r] = Catch(
                     [q EXCEPT !.calls = Append(@, Call("subscriptions.create", arg, FALSE, <<>>))],
                     "processor error")]
  /\ UNCHANGED <<customers, intents>>

\* ------------------------------------------------------------ behaviours
InitReq == req = [r \in Reqs |-> Idle]

InitEmpty ==
  /\ InitReq
  /\ customers = <<>>
  /\ subs = <<>>
  /\ intents = <<>>

NextWebhook == \E r \in Reqs : Webhook(r)

SpecWebhook == InitEmpty /\ [][NextWebhook]_vars

NextPromo == \E r \in Reqs : ValidatePromo(r) \/ ValidatePromoList(r)

SpecPromo == InitEmpty /\ [][NextPromo]_vars

\* Before the server starts the processor holds two customers and up to
\* MaxSubs subscriptions of theirs, active or canceled; or one customer
\* owns one active subscription more than a list call returns.
InitCancel ==
  /\ InitReq
  /\ customers = <<Customer("a@x", NoId), Customer("b@x", NoId)>>
  /\ \/ \E n \in 0..MaxSubs :
          subs \in [1..n -> {Subscription(c, st, FALSE, NoId) :
                               c \in 1..2, st \in {"active", "canceled"}}]
     \/ subs = [i \in 1..(SubscriptionsLimit + 1) |->
                  Subscription(1, "active", FALSE, NoId)]
  /\ intents = <<>>

NextCancel ==
  \E r \in Reqs : CancelSubscription(r) \/ CancelList(r) \/ CancelNext(r)

SpecCancel == InitCancel /\ [][NextCancel]_vars

\* The processor already holds a customer of another caller.
InitPay ==
  /\ InitReq
  /\ customers = <<Customer("b@x", NoId)>>
  /\ subs = <<>>
  /\ intents = <<>>

\* The request that arrives in this step is for the email "a@x".
SameEmail(r) == req'[r].body.customerEmail = "a@x"

\* Concurrent requests of one caller to the two payment routes.
NextPay ==
  \E r \in Reqs :
    \/ CreatePaymentIntent(r) /\ SameEmail(r)
    \/ IntentCustomersList(r)
    \/ IntentCustomersCreate(r) \/ IntentEphemeralKey(r) \/ IntentCreate(r)
    \/ CreateSubscription(r) /\ SameEmail(r)
    \/ SubCustomersList(r) \/ SubCustomersCreate(r)
    \/ SubEphemeralKey(r) \/ SubPromoList(r) \/ SubCreate(r)

SpecPay == InitPay /\ [][NextPay]_vars

\* No request is in flight.
Quiet == \A p \in Reqs : req[p].pc \in {"idle", "done"}

\* Sequential calls to /create-payment-intent, for any email: a request
\* arrives only when the one before it has been answered.
NextSeq ==
  \E r \in Reqs :
    \/ Quiet /\ CreatePaymentIntent(r)
    \/ IntentCustomersList(r)
    \/ IntentCustomersCreate(r) \/ IntentEphemeralKey(r) \/ IntentCreate(r)

SpecSeq == InitEmpty /\ [][NextSeq]_vars

\* The whole server: every route, any input, over a processor that holds
\* customers and subscriptions.
Init == InitCancel

Next ==
  \E r \in Reqs :
    \/ Webhook(r)
    \/ ValidatePromo(r) \/ ValidatePromoList(r)
    \/ CancelSubscription(r) \/ CancelList(r) \/ CancelNext(r)
    \/ CreatePaymentIntent(r) \/ IntentCustomersList(r)
    \/ IntentCustomersCreate(r) \/ IntentEphemeralKey(r) \/ IntentCreate(r)
    \/ CreateSubscription(r) \/ SubCustomersList(r) \/ SubCustomersCreate(r)
    \/ SubEphemeralKey(r) \/ SubPromoList(r) \/ SubCreate(r)

Spec == Init /\ [][Next]_vars

\* ================================================================ claims
Last(s) == s[Len(s)]

\* ------------------------------------------------------------------- C1
\* The delivery's signature was computed with the endpoint's secret over
\* these bytes, within the tolerance.
Verifies(d) == d.key = EndpointSecret /\ ~d.tampered /\ ~d.stale

BranchLines ==
  {"Payment succeeded", "Subscription updated", "Subscription canceled",
   "Unhandled event type"}

Acks(q) == {i \in 1..Len(q.res) : q.res[i].status = 200}

\* C1: for every delivery to POST /webhook, {received: true} is never sent
\* unless the signature verified, and when it verified it is sent exactly
\* once, as the last thing the handler does, after the one event-type
\* branch that ran, whichever branch that was.
C1_AckOnceAfterVerifiedDispatch ==
  \A r \in Reqs :
    req[r].route = "webhook" =>
      LET q == req[r] IN
      /\ Acks(q) # {} => Verifies(q.body)
      /\ Verifies(q.body) =>
           /\ q.res = <<[status |-> 200, body |-> [received |-> TRUE]]>>
           /\ Len(q.out) = 2
           /\ q.out[1].kind = "log" /\ q.out[1].line \in BranchLines
           /\ q.out[2] = [kind |-> "response", status |-> 200]

\* A verified delivery of an unrecognized type was acknowledged.
C1_Witness ==
  \E r \in Reqs :
    /\ req[r].route = "webhook"
    /\ Verifies(req[r].body)
    /\ req[r].body.type = "charge.refunded"
    /\ Acks(req[r]) # {}

\* ------------------------------------------------------------------- C2
\* C2: when the signature verification of a delivery fails, the handler
\* answers 400 with the failure reason, runs no event-type branch, and does
\* not send {received: true}.
C2_FailedVerificationRejected ==
  \A r \in Reqs :
    (req[r].route = "webhook" /\ ~Verifies(req[r].body)) =>
      LET q == req[r] IN
      /\ Len(q.res) = 1
      /\ q.res[1].status = 400
      /\ q.res[1].body.webhookError # "none"
      /\ \A i \in 1..Len(q.out) :
           q.out[i].kind = "log" => q.out[i].line \notin BranchLines
      /\ Acks(q) = {}

\* A tampered payload with a stale signature was rejected.
C2_Witness ==
  \E r \in Reqs :
    /\ req[r].route = "webhook"
    /\ req[r].body.tampered /\ req[r].body.stale
    /\ req[r].body.key = EndpointSecret
    /\ req[r].pc = "done"
    /\ req[r].res[1].status = 400

\* ------------------------------------------------------------------- C6
\* C6: a request to POST /validate-promo whose promoCode is absent or empty
\* is answered 400, never 200, and makes no processor call.
C6_MissingPromoCodeIs400 ==
  \A r \in Reqs :
    (req[r].route = "validate-promo" /\ req[r].body.promoCode \in {NoCode, <<>>}) =>
      /\ req[r].pc = "done"
      /\ Len(req[r].res) = 1
      /\ req[r].res[1].status = 400
      /\ req[r].calls = <<>>

\* A request with the empty string as promoCode was answered.
C6_Witness ==
  \E r \in Reqs :
    /\ req[r].route = "validate-promo"
    /\ req[r].body.promoCode = <<>>
    /\ req[r].pc = "done"

\* ------------------------------------------------------------------- C7
\* The processor holds an active promotion code whose code is the input in
\* upper case.
ActiveMatch(input) ==
  \E i \in 1..Len(PromotionCodes) :
    /\ PromotionCodes[i].active
    /\ Len(PromotionCodes[i].code) = Len(input)
    /\ \A k \in 1..Len(input) : PromotionCodes[i].code[k] = UpperChar(input[k])

\* The code exists at the processor, active or not.
CodeExists(input) ==
  \E i \in 1..Len(PromotionCodes) : PromotionCodes[i].code = ToUpperCase(input)

\* The request's lookup was served and the request answered.
PromoLookedUp(q) ==
  /\ q.route = "validate-promo"
  /\ q.pc = "done"
  /\ Len(q.calls) = 1 /\ q.calls[1].ok

\* C7: for a promo code without an active match at the processor, an
\* inactive code included, POST /validate-promo answers 200 {valid: false}
\* with no discount fields; valid: true is answered only when an active
\* promotion code matches the uppercased input.
C7_NoActiveMatchIsInvalid ==
  \A r \in Reqs :
    PromoLookedUp(req[r]) =>
      LET q == req[r] IN
      /\ Len(q.res) = 1
      /\ ~ActiveMatch(q.body.promoCode) =>
           q.res[1] = [status |-> 200, body |-> [valid |-> FALSE]]
      /\ q.res[1].body.valid => ActiveMatch(q.body.promoCode)

\* The inactive code "X", given in lower case, was answered {valid: false}.
C7_Witness ==
  \E r \in Reqs :
    /\ PromoLookedUp(req[r])
    /\ CodeExists(req[r].body.promoCode)
    /\ ~ActiveMatch(req[r].body.promoCode)
    /\ req[r].res[1].body = [valid |-> FALSE]

\* ------------------------------------------------------------------- C5
\* The active subscriptions the customer owns.
ActiveOf(customerId) ==
  {i \in 1..Len(subs) :
     subs[i].customer = customerId /\ subs[i].status = "active"}

IsCancel(q) == q.route = "cancel-subscription"

CancelCalls(q) == SelectSeq(q.calls, LAMBDA c : c.op = "subscriptions.cancel")

\* The served calls, of any request, that canceled subscription id.
SuccessfulCancels(id) ==
  UNION {{<<p, i>> : i \in {j \in 1..Len(req[p].calls) :
                             /\ req[p].calls[j].op = "subscriptions.cancel"
                             /\ req[p].calls[j].ok
                             /\ req[p].calls[j].arg = <<id>>}} : p \in Reqs}

\* In this step request r's list call is served, for a customer who owns
\* N <= 10 active subscriptions: with N = 0 the request is answered 404 and
\* nothing is canceled, otherwise the handler holds exactly those N ids.
C5_Listing(r) ==
  LET q == req[r]
      owned == ActiveOf(q.body.customerId) IN
  (/\ IsCancel(q)
   /\ q.pc = "subscriptions.list"
   /\ req'[r].pc # "subscriptions.list"
   /\ Last(req'[r].calls).ok
   /\ Cardinality(owned) <= 10) =>
     IF owned = {}
     THEN /\ req'[r].pc = "done"
          /\ Len(req'[r].res) = 1
          /\ req'[r].res[1].status = 404
          /\ subs' = subs
     ELSE /\ req'[r].pc = "subscriptions.cancel"
          /\ Len(req'[r].subscriptions) = Cardinality(owned)
          /\ Range(req'[r].subscriptions) = owned

\* An answered request: after 404 it has canceled nothing; when it listed N
\* ids and no processor call failed it answers success with exactly those N
\* ids, each canceled by exactly one call, of this request and of any.
C5_Answered(r) ==
  LET q == req[r]
      N == Len(q.subscriptions) IN
  (IsCancel(q) /\ q.pc = "done" /\ q.body.customerId # NoId) =>
     /\ Len(q.res) = 1
     /\ q.res[1].status = 404 => CancelCalls(q) = <<>> /\ N = 0
     /\ (N >= 1 /\ \A i \in 1..Len(q.calls) : q.calls[i].ok) =>
          /\ q.res[1].status = 200
          /\ q.res[1].body.success
          /\ q.res[1].body.canceledSubscriptions = q.subscriptions
          /\ Len(q.res[1].body.canceledSubscriptions) = N
          /\ \A k \in 1..N :
               /\ subs[q.subscriptions[k]].status = "canceled"
               /\ Cardinality(SuccessfulCancels(q.subscriptions[k])) = 1

\* C5: POST /cancel-subscription for a customer owning zero active
\* subscriptions answers 404 and cancels nothing; for a customer owning N
\* active subscriptions (1 <= N <= 10), with no processor failure, it
\* answers success with a canceledSubscriptions list of length N holding
\* exactly the ids of those subscriptions, each canceled exactly once.
C5_CancelAllActive ==
  /\ [][\A r \in Reqs : C5_Listing(r)]_vars
  /\ [](\A r \in Reqs : C5_Answered(r))

\* A customer's three active subscriptions were canceled by one request.
C5_Witness ==
  \E r \in Reqs :
    /\ IsCancel(req[r])
    /\ req[r].pc = "done"
    /\ req[r].res[1].status = 200
    /\ Len(req[r].res[1].body.canceledSubscriptions) = 3

\* ------------------------------------------------------------------- C8
\* C8: if the processor fails while canceling the k-th listed subscription,
\* the first k-1 subscriptions are canceled and stay so, no cancel is
\* attempted for a subscription after the k-th, and the request ends with a
\* 500 response that does not report the canceled ids.
C8_PartialCancelOnFailure ==
  \A r \in Reqs :
    LET q == req[r]
        attempts == CancelCalls(q)
        k == Len(attempts) IN
    (IsCancel(q) /\ \E i \in 1..k : ~attempts[i].ok) =>
       /\ ~attempts[k].ok
       /\ \A j \in 1..(k - 1) :
            /\ attempts[j].ok
            /\ subs[q.subscriptions[j]].status = "canceled"
       /\ k <= Len(q.subscriptions)
       /\ \A j \in 1..k : attempts[j].arg = <<q.subscriptions[j]>>
       /\ Last(q.calls) = attempts[k]
       /\ q.pc = "done"
       /\ Len(q.res) = 1
       /\ q.res[1].status = 500
       /\ DOMAIN q.res[1].body = {"error"}

\* The second of three cancels failed after the first one succeeded.
C8_Witness ==
  \E r \in Reqs :
    LET q == req[r]
        attempts == CancelCalls(q) IN
    /\ IsCancel(q)
    /\ Len(q.subscriptions) = 3
    /\ Len(attempts) = 2
    /\ attempts[1].ok /\ ~attempts[2].ok
    /\ subs[q.subscriptions[1]].status = "canceled"
    /\ subs[q.subscriptions[3]].status = "active"

\* ------------------------------------------------------------------- C3
IsIntent(q) == q.route = "create-payment-intent"

Succeeded(q) == q.pc = "done" /\ Len(q.res) = 1 /\ q.res[1].status = 200

\* C3: repeated sequential calls to POST /create-payment-intent with the
\* same email return the same customer id, whether or not the caller
\* supplies customerId.
C3_StableCustomerId ==
  \A r1, r2 \in Reqs :
    (/\ IsIntent(req[r1]) /\ Succeeded(req[r1])
     /\ IsIntent(req[r2]) /\ Succeeded(req[r2])
     /\ req[r1].body.customerEmail = req[r2].body.customerEmail) =>
       req[r1].res[1].body.customer = req[r2].res[1].body.customer

\* ------------------------------------------------------------------- C4
IsSub(q) == q.route = "create-subscription"

\* The subscription the processor made for the request, as a set of ids.
CreatedSubscription(q) ==
  {q.calls[i].ret[1] : i \in {j \in 1..Len(q.calls) :
      q.calls[j].op = "subscriptions.create" /\ q.calls[j].ok}}

\* C4: when the processor returns a subscription whose latest invoice has
\* no payment intent, POST /create-subscription answers success with a null
\* paymentIntent field, not an error.
C4_FreeSubscriptionSucceeds ==
  \A r \in Reqs :
    \A id \in CreatedSubscription(req[r]) :
      (IsSub(req[r]) /\ ~subs[id].payment_intent) =>
         /\ Succeeded(req[r])
         /\ req[r].res[1].body.paymentIntent = Null

\* ------------------------------------------------------------------- C9
IsPay(q) == IsIntent(q) \/ IsSub(q)

\* Call j of the request resolved the customer: a lookup that found one, or
\* a create; the call returned the customer's id.
Resolves(q, j) ==
  /\ q.calls[j].ok
  /\ q.calls[j].ret # <<>>
  /\ q.calls[j].op \in {"customers.list", "customers.create"}

DependentOps ==
  {"ephemeralKeys.create", "paymentIntents.create", "subscriptions.create"}

\* C9: within one request the processor calls are sequential and each is
\* attempted once, without retry: a call that depends on the customer is
\* made only after the customer was resolved, with that customer's id, and
\* the first failed call is the request's last and ends it with a 500.
C9_SequentialCallsNoRetry ==
  \A r \in Reqs :
    LET q == req[r]
        n == Len(q.calls) IN
    IsPay(q) =>
      /\ \A i, j \in 1..n : i < j => q.calls[i].op # q.calls[j].op
      /\ \A i \in 1..n :
           ~q.calls[i].ok =>
             /\ i = n
             /\ q.pc = "done"
             /\ Len(q.res) = 1
             /\ q.res[1].status = 500
      /\ \A i \in 1..n :
           q.calls[i].op \in DependentOps =>
             \E j \in 1..(i - 1) :
               /\ Resolves(q, j)
               /\ q.calls[i].arg = <<q.calls[j].ret[1]>>
               /\ \A k \in (j + 1)..(i - 1) : ~Resolves(q, k)
      /\ Len(q.res) <= 1
      /\ q.pc = "done" <=> Len(q.res) = 1

\* A request resolved its customer, got its key, and then failed creating
\* the subscription.
C9_Witness ==
  \E r \in Reqs :
    LET q == req[r] IN
    /\ IsSub(q)
    /\ Len(q.calls) >= 4
    /\ Last(q.calls).op = "subscriptions.create"
    /\ ~Last(q.calls).ok
    /\ q.res[1].status = 500

\* ------------------------------------------------------------------ C10
HasCall(q, op) == \E i \in 1..Len(q.calls) : q.calls[i].op = op /\ q.calls[i].ok

\* The request looked its email up and then created a customer.
CreatedAfterLookup(q) ==
  /\ IsPay(q)
  /\ HasCall(q, "customers.list")
  /\ HasCall(q, "customers.create")

\* No customer was created between the request's lookup and its create.
Uninterrupted(q) == q.customer = q.seen + 1

\* C10: customer resolution is not atomic across concurrent requests: two
\* requests for an email without a customer can both look up nothing and
\* both create one; when nothing comes between each request's lookup and
\* its create, these paths create at most one customer for the email.
C10_DuplicatesOnlyWhenInterleaved ==
  \A r1, r2 \in Reqs :
    (/\ r1 # r2
     /\ CreatedAfterLookup(req[r1]) /\ CreatedAfterLookup(req[r2])
     /\ req[r1].body.customerEmail = req[r2].body.customerEmail) =>
       ~(Uninterrupted(req[r1]) /\ Uninterrupted(req[r2]))

\* Two concurrent requests, one to each route, both created a customer for
\* the same email.
C10_Witness ==
  \E r1, r2 \in Reqs :
    /\ IsIntent(req[r1]) /\ IsSub(req[r2])
    /\ CreatedAfterLookup(req[r1]) /\ CreatedAfterLookup(req[r2])
    /\ req[r1].customer # req[r2].customer
    /\ customers[req[r1].customer].email = customers[req[r2].customer].email
====
